---- MODULE Spec2Model ----
(***************************************************************************)
(* SC allocation list processor: the domain model (src/domain_model.py)    *)
(* and the application service that drives it (src/streamlit_app.py).      *)
(*                                                                         *)
(* Spec     one call of one operation of the domain model, its inputs      *)
(*          drawn from bounded sets.                                       *)
(* SpecApp  one upload session: parse_excel_file, then validate_records    *)
(*          and process_all_data over the parsed spreadsheet.              *)
(***************************************************************************)
EXTENDS Integers, Sequences, FiniteSets, TLC

VARIABLES
    op,            \* the operation called ("session" for an upload session)
    pc,            \* "call" before the operation runs and "return" after it;
                   \* "uploaded", "parsed" or "failed" in an upload session
    arg,           \* the argument(s) of a constructor, apply_transformation or validate
    ret,           \* what the operation returned or raised
    source_row,    \* transform_row's source_row
    mappings,      \* the mapping list given to the services
    rows,          \* the uploaded sheet: list(sheet.iter_rows(values_only=True))
    title_row,     \* SourceSpreadsheet.title_row
    effective_date,\* SourceSpreadsheet.effective_date
    header_row,    \* SourceSpreadsheet.header_row
    data_rows,     \* SourceSpreadsheet.data_rows
    validated,     \* what validate_records returned, once it has run
    processed      \* what process_all_data returned, once it has run

vars == <<op, pc, arg, ret, source_row, mappings, rows, title_row,
          effective_date, header_row, data_rows, validated, processed>>

(***************************************************************************)
(* Python values.  A value is a pair of its type and its payload; None is  *)
(* a value of its own type.  Floats are the integer-valued ones.           *)
(***************************************************************************)
None == <<"NoneType">>
StrV(s) == <<"str", s>>
IntV(n) == <<"int", n>>
FloatV(n) == <<"float", n>>
BoolV(b) == <<"bool", b>>
DateV(d) == <<"date", d>>

TypeOf(v) == v[1]

\* An operation either returns a value or raises an exception.
Ok(v) == [ok |-> TRUE, val |-> v]
Raise(e, msg) == [ok |-> FALSE, exc |-> e, msg |-> msg]

IsInstanceStr(v) == TypeOf(v) = "str"

\* bool(v), and the truth value `not v`, `if v`, any() test.
Truthy(v) ==
    CASE TypeOf(v) = "NoneType" -> FALSE
      [] TypeOf(v) = "str"      -> v[2] # ""
      [] TypeOf(v) = "int"      -> v[2] # 0
      [] TypeOf(v) = "float"    -> v[2] # 0
      [] TypeOf(v) = "bool"     -> v[2]
      [] TypeOf(v) = "date"     -> TRUE

LowerAlpha == "abcdefghijklmnopqrstuvwxyz"
UpperAlpha == "ABCDEFGHIJKLMNOPQRSTUVWXYZ"
Digits == "0123456789"
Whitespace == {" ", "\t", "\n", "\r"}

CharAt(s, i) == SubSeq(s, i, i)

IndexIn(alphabet, c) ==
    IF \E i \in 1..Len(alphabet) : CharAt(alphabet, i) = c
    THEN CHOOSE i \in 1..Len(alphabet) : CharAt(alphabet, i) = c
    ELSE 0

\* The case tables of the ASCII letters.
ToUpper == [c \in {CharAt(LowerAlpha, i) : i \in 1..Len(LowerAlpha)} |->
               CharAt(UpperAlpha, IndexIn(LowerAlpha, c))]
ToLower == [c \in {CharAt(UpperAlpha, i) : i \in 1..Len(UpperAlpha)} |->
               CharAt(LowerAlpha, IndexIn(UpperAlpha, c))]
DigitValue == [c \in {CharAt(Digits, i) : i \in 1..Len(Digits)} |-> IndexIn(Digits, c) - 1]

UpperChar(c) == IF c \in DOMAIN ToUpper THEN ToUpper[c] ELSE c

LowerChar(c) == IF c \in DOMAIN ToLower THEN ToLower[c] ELSE c

RECURSIVE MapChars(_, _, _)
MapChars(s, i, upper) ==
    IF i > Len(s) THEN ""
    ELSE (IF upper THEN UpperChar(CharAt(s, i)) ELSE LowerChar(CharAt(s, i)))
         \o MapChars(s, i + 1, upper)

\* str.upper() and str.lower()
Upper(s) == MapChars(s, 1, TRUE)
Lower(s) == MapChars(s, 1, FALSE)

\* str.strip(): leading and trailing whitespace removed
Strip(s) ==
    LET keep == {i \in 1..Len(s) : CharAt(s, i) \notin Whitespace}
    IN  IF keep = {} THEN ""
        ELSE LET first == CHOOSE i \in keep : \A j \in keep : i <= j
                 last  == CHOOSE i \in keep : \A j \in keep : j <= i
             IN  SubSeq(s, first, last)

RECURSIVE NatToStr(_)
NatToStr(n) ==
    IF n < 10 THEN CharAt(Digits, n + 1)
    ELSE NatToStr(n \div 10) \o CharAt(Digits, (n % 10) + 1)

IntToStr(n) == IF n < 0 THEN "-" \o NatToStr(-n) ELSE NatToStr(n)

\* str(v)
PyStr(v) ==
    CASE TypeOf(v) = "NoneType" -> "None"
      [] TypeOf(v) = "str"      -> v[2]
      [] TypeOf(v) = "int"      -> IntToStr(v[2])
      [] TypeOf(v) = "float"    -> IntToStr(v[2]) \o ".0"
      [] TypeOf(v) = "bool"     -> IF v[2] THEN "True" ELSE "False"
      [] TypeOf(v) = "date"     -> v[2]

IsDigitString(s) == Len(s) > 0 /\ \A i \in 1..Len(s) : CharAt(s, i) \in DOMAIN DigitValue

RECURSIVE DigitsToNat(_)
DigitsToNat(s) ==
    IF Len(s) = 0 THEN 0
    ELSE 10 * DigitsToNat(SubSeq(s, 1, Len(s) - 1)) + DigitValue[CharAt(s, Len(s))]

\* float(v): numbers convert, a string is parsed after stripping whitespace
\* (the unsigned decimal integers are the numeric strings of this model),
\* anything else raises.
PyFloat(v) ==
    CASE TypeOf(v) = "int"      -> Ok(FloatV(v[2]))
      [] TypeOf(v) = "float"    -> Ok(v)
      [] TypeOf(v) = "bool"     -> Ok(FloatV(IF v[2] THEN 1 ELSE 0))
      [] TypeOf(v) = "str"      -> IF IsDigitString(Strip(v[2]))
                                   THEN Ok(FloatV(DigitsToNat(Strip(v[2]))))
                                   ELSE Raise("ValueError", "could not convert string to float: '" \o v[2] \o "'")
      [] TypeOf(v) = "NoneType" -> Raise("TypeError", "float() argument must be a string or a real number")
      [] TypeOf(v) = "date"     -> Raise("TypeError", "float() argument must be a string or a real number")

(***************************************************************************)
(* Value objects                                                           *)
(***************************************************************************)
SourceColumnName(value) ==
    IF ~Truthy(value) \/ ~IsInstanceStr(value)
    THEN Raise("ValueError", "Column name must be a non-empty string")
    ELSE Ok([cls |-> "SourceColumnName", value |-> value])

AccountIdentifier_no_type_check(value) ==
    IF ~Truthy(value)
    THEN Raise("ValueError", "Account identifier must be a non-empty string")
    ELSE Ok([cls |-> "AccountIdentifier", value |-> value])

AccountIdentifier(value) ==
    IF ~Truthy(value) \/ ~IsInstanceStr(value)
    THEN Raise("ValueError", "Account identifier must be a non-empty string")
    ELSE Ok([cls |-> "AccountIdentifier", value |-> value])

(***************************************************************************)
(* ColumnMapping, TableSchema, MappingService                              *)
(***************************************************************************)
yes_no_to_boolean == "yes_no_to_boolean"

valid_targets_without_time_frame ==
    {"EFFECTIVE_DATE", "ACCOUNT_IDENTIFIER", "FULL_NAME",
     "BALANCE", "FRAUD_WARNING", "ADMIN_HOLD",
     "ALLOCATION_OF_LOSS_REASON", "MANAGING_OFFICER"}

valid_targets ==
    {"EFFECTIVE_DATE", "ACCOUNT_IDENTIFIER", "FULL_NAME",
     "BALANCE", "FRAUD_WARNING", "ADMIN_HOLD",
     "ALLOCATION_OF_LOSS_REASON", "TIME_FRAME", "MANAGING_OFFICER"}

\* ColumnMapping(source_column, target_column, transformation); the
\* transformation is None or a tag.
ColumnMapping(source_column, target_column, transformation) ==
    IF target_column \notin valid_targets
    THEN Raise("ValueError", "Invalid target column: " \o target_column)
    ELSE Ok([source_column |-> source_column,
             target_column |-> target_column,
             transformation |-> transformation])

TableSchema_columns ==
    <<"EFFECTIVE_DATE", "ACCOUNT_IDENTIFIER", "FULL_NAME", "BALANCE",
      "FRAUD_WARNING", "ADMIN_HOLD", "ALLOCATION_OF_LOSS_REASON",
      "TIME_FRAME", "MANAGING_OFFICER">>

\* The (source header, target, transformation) triples of the default table.
DefaultTable ==
    <<<<"Account Identifier", "ACCOUNT_IDENTIFIER", None>>,
      <<"Full Name", "FULL_NAME", None>>,
      <<"Balance", "BALANCE", None>>,
      <<"Fraud Warning - Desc", "FRAUD_WARNING", StrV(yes_no_to_boolean)>>,
      <<"Admin Hold - Desc", "ADMIN_HOLD", StrV(yes_no_to_boolean)>>,
      <<"Charge Off Reason Code - Desc", "ALLOCATION_OF_LOSS_REASON", None>>,
      <<"Charge Off Group - Desc", "TIME_FRAME", None>>,
      <<"Managing Officer - Desc", "MANAGING_OFFICER", None>>>>

\* A list expression [ColumnMapping(SourceColumnName(s), t, x), ...]: the
\* first constructor that raises ends the evaluation.
MakeMapping(triple) ==
    LET scn == SourceColumnName(StrV(triple[1]))
    IN  IF ~scn.ok THEN scn ELSE ColumnMapping(scn.val, triple[2], triple[3])

MakeMappings(table) ==
    LET made == [i \in DOMAIN table |-> MakeMapping(table[i])]
    IN  IF \E i \in DOMAIN made : ~made[i].ok
        THEN made[CHOOSE i \in DOMAIN made :
                     ~made[i].ok /\ \A j \in DOMAIN made : ~made[j].ok => i <= j]
        ELSE Ok([i \in DOMAIN made |-> made[i].val])

get_default_mappings == MakeMappings(DefaultTable)

(***************************************************************************)
(* SourceSpreadsheet.get_column_index: the 0-based index of the first      *)
(* occurrence of the name in the header, or None.                          *)
(***************************************************************************)
get_column_index_last(header, column_name) ==
    IF \E i \in DOMAIN header : header[i] = column_name
    THEN IntV((CHOOSE i \in DOMAIN header :
                /\ header[i] = column_name
                /\ \A j \in DOMAIN header : header[j] = column_name => j <= i) - 1)
    ELSE None

get_column_index(header, column_name) ==
    IF \E i \in DOMAIN header : header[i] = column_name
    THEN IntV((CHOOSE i \in DOMAIN header :
                /\ header[i] = column_name
                /\ \A j \in DOMAIN header : header[j] = column_name => i <= j) - 1)
    ELSE None

(***************************************************************************)
(* RecordTransformationService.transform_row                               *)
(***************************************************************************)
get_value_empty_string(header, row, source_col_name) ==
    LET idx == get_column_index(header, source_col_name)
    IN  IF idx = None \/ idx[2] >= Len(row) THEN StrV("") ELSE row[idx[2] + 1]

get_value(header, row, source_col_name) ==
    LET idx == get_column_index(header, source_col_name)
    IN  IF idx = None \/ idx[2] >= Len(row) THEN None ELSE row[idx[2] + 1]

apply_transformation_case_sensitive(value, transformation) ==
    IF transformation = StrV(yes_no_to_boolean)
    THEN IF IsInstanceStr(value)
         THEN BoolV(value[2] = "YES")
         ELSE BoolV(Truthy(value))
    ELSE value

apply_transformation(value, transformation) ==
    IF transformation = StrV(yes_no_to_boolean)
    THEN IF IsInstanceStr(value)
         THEN BoolV(Upper(value[2]) = "YES")
         ELSE BoolV(Truthy(value))
    ELSE value

RecordFields == {Lower(TableSchema_columns[i]) : i \in DOMAIN TableSchema_columns}

AllocationRecord_defaults(record_data) ==
    Ok([f \in RecordFields |-> IF f \in DOMAIN record_data THEN record_data[f] ELSE None])

\* AllocationRecord(**record_data): every field is a required argument.
AllocationRecord(record_data) ==
    IF DOMAIN record_data = RecordFields
    THEN Ok(record_data)
    ELSE Raise("TypeError", "__init__() missing required positional arguments")

\* The loop over the mappings from the k-th on; record_data is the dict
\* built so far.
RECURSIVE TransformLoop(_, _, _, _, _)
TransformLoop(record_data, k, row, header, maps) ==
    IF k > Len(maps) THEN AllocationRecord(record_data)
    ELSE LET mapping == maps[k]
             value == get_value(header, row, mapping.source_column.value[2])
             transformed_value == apply_transformation(value, mapping.transformation)
             field_name == Lower(mapping.target_column)
         IN  IF field_name = "account_identifier"
             THEN LET acct == AccountIdentifier(StrV(PyStr(transformed_value)))
                  IN  IF ~acct.ok THEN acct
                      ELSE TransformLoop((field_name :> acct.val) @@ record_data,
                                         k + 1, row, header, maps)
             ELSE TransformLoop((field_name :> transformed_value) @@ record_data,
                                k + 1, row, header, maps)

transform_row(date, row, header, maps) ==
    TransformLoop(("effective_date" :> date), 1, row, header, maps)

(***************************************************************************)
(* AllocationRecord.validate                                               *)
(***************************************************************************)
\* `not v or not v.strip()`: only a str has strip().
EmptyOrBlank(v) ==
    IF ~Truthy(v) THEN Ok(TRUE)
    ELSE IF ~IsInstanceStr(v)
         THEN Raise("AttributeError", "'" \o TypeOf(v) \o "' object has no attribute 'strip'")
         ELSE Ok(~Truthy(StrV(Strip(v[2]))))

FullNameError == "Full name cannot be empty"
BalanceError == "Balance must be provided"
TimeFrameError == "Time frame must be specified"

validate(record) ==
    LET name == EmptyOrBlank(record.full_name)
        frame == EmptyOrBlank(record.time_frame)
    IN  IF ~name.ok THEN name
        ELSE IF ~frame.ok THEN frame
        ELSE Ok((IF name.val THEN <<FullNameError>> ELSE <<>>)
                \o (IF record.balance = None THEN <<BalanceError>> ELSE <<>>)
                \o (IF frame.val THEN <<TimeFrameError>> ELSE <<>>))

(***************************************************************************)
(* AllocationListProcessor                                                 *)
(***************************************************************************)
\* datetime.fromisoformat(s.replace('Z', '+00:00')).date(), for the strings
\* of the form YYYY-MM-DD; any other string raises.
IsIsoDate(s) ==
    /\ Len(s) = 10
    /\ \A i \in 1..10 : IF i \in {5, 8} THEN CharAt(s, i) = "-"
                        ELSE CharAt(s, i) \in DOMAIN DigitValue

ParseEffectiveDate(v) ==
    CASE TypeOf(v) = "date" -> Ok(v)
      [] TypeOf(v) = "str" -> IF IsIsoDate(v[2]) THEN Ok(DateV(v[2]))
                              ELSE Raise("ValueError", "Invalid isoformat string: '" \o v[2] \o "'")
      [] OTHER -> Raise("ValueError", "Cannot parse effective date: " \o PyStr(v))

\* any(row)
AnyCell(row) == \E i \in DOMAIN row : Truthy(row[i])

RECURSIVE SkipEmptyRows(_)
SkipEmptyRows(rs) ==
    IF rs = <<>> THEN <<>>
    ELSE (IF AnyCell(Head(rs)) THEN <<Head(rs)>> ELSE <<>>) \o SkipEmptyRows(Tail(rs))

parse_excel_file(sheet) ==
    IF Len(sheet) < 3 \/ Len(sheet[1]) = 0 \/ Len(sheet[2]) = 0
    THEN Raise("IndexError", "list index out of range")
    ELSE LET date == ParseEffectiveDate(sheet[2][1])
         IN  IF ~date.ok THEN date
             ELSE Ok([title_row |-> IF Truthy(sheet[1][1]) THEN PyStr(sheet[1][1]) ELSE "",
                      effective_date |-> date.val,
                      header_row |-> [i \in DOMAIN sheet[3] |->
                                        IF Truthy(sheet[3][i]) THEN PyStr(sheet[3][i]) ELSE ""],
                      data_rows |-> SkipEmptyRows(SubSeq(sheet, 4, Len(sheet)))])

\* validate_records' loop from the i-th data row on; spreadsheet row idx = i + 3.
RECURSIVE ValidateLoop(_, _, _, _, _, _, _)
ValidateLoop(i, valid_count, errors, date, header, drows, maps) ==
    IF i > Len(drows) THEN <<valid_count, errors>>
    ELSE LET idx == i + 3
             prefix == "Row " \o IntToStr(idx) \o ": "
             record == transform_row(date, drows[i], header, maps)
             record_errors == IF record.ok THEN validate(record.val) ELSE record
         IN  IF ~record_errors.ok
             THEN ValidateLoop(i + 1, valid_count,
                      Append(errors, prefix \o "Failed to transform - " \o record_errors.msg),
                      date, header, drows, maps)
             ELSE IF record_errors.val # <<>>
             THEN ValidateLoop(i + 1, valid_count,
                      errors \o [k \in DOMAIN record_errors.val |-> prefix \o record_errors.val[k]],
                      date, header, drows, maps)
             ELSE ValidateLoop(i + 1, valid_count + 1, errors, date, header, drows, maps)

validate_records(date, header, drows, maps) ==
    ValidateLoop(1, 0, <<>>, date, header, drows, maps)

\* The dict process_all_data appends for a record; float() may raise.
ExportRow(record) ==
    LET balance == IF Truthy(record.balance) THEN PyFloat(record.balance) ELSE Ok(None)
    IN  IF ~balance.ok THEN balance
        ELSE Ok([EFFECTIVE_DATE |-> record.effective_date,
                 ACCOUNT_IDENTIFIER |-> record.account_identifier.value,
                 FULL_NAME |-> record.full_name,
                 BALANCE |-> balance.val,
                 FRAUD_WARNING |-> record.fraud_warning,
                 ADMIN_HOLD |-> record.admin_hold,
                 ALLOCATION_OF_LOSS_REASON |-> record.allocation_of_loss_reason,
                 TIME_FRAME |-> record.time_frame,
                 MANAGING_OFFICER |-> record.managing_officer])

RECURSIVE ProcessLoop(_, _, _, _, _, _)
ProcessLoop(i, records_data, date, header, drows, maps) ==
    IF i > Len(drows) THEN records_data
    ELSE LET record == transform_row(date, drows[i], header, maps)
             exported == IF record.ok THEN ExportRow(record.val) ELSE record
         IN  ProcessLoop(i + 1,
                         IF exported.ok THEN Append(records_data, exported.val) ELSE records_data,
                         date, header, drows, maps)

process_all_data(date, header, drows, maps) ==
    ProcessLoop(1, <<>>, date, header, drows, maps)

(***************************************************************************)
(* Inputs of the domain operations                                         *)
(***************************************************************************)
MaxRowLen == 9

TheDate == DateV("2024-01-01")

CellValues ==
    {None, StrV(""), StrV(" "), StrV("YES"), StrV("yes"), StrV("Yes"), StrV("NO"),
     StrV(" yes"), StrV("A100"), StrV("N/A"), StrV("500"), IntV(0), IntV(500),
     IntV(2024), FloatV(0), BoolV(TRUE), BoolV(FALSE), DateV("2023-12-31")}

\* The cells tried in each position of a row.
RowCellValues == {None, StrV(""), StrV("yes"), IntV(0), IntV(2024), BoolV(TRUE)}

DefaultHeader == [i \in DOMAIN DefaultTable |-> DefaultTable[i][1]]

GoodCells ==
    <<StrV("A100"), StrV("Jane Doe"), FloatV(500), StrV("YES"), StrV("NO"),
      StrV("Code1"), StrV("Q1-2024"), StrV("Officer X")>>

\* A well-formed row of n cells: the cells of the default layout, then filler.
GoodRow(n) == [i \in 1..n |-> IF i <= Len(GoodCells) THEN GoodCells[i] ELSE StrV("extra")]

\* Rows: a well-formed row with one cell replaced, or cut short.
RowInputs ==
    {[GoodRow(MaxRowLen) EXCEPT ![i] = v] : i \in 1..MaxRowLen, v \in RowCellValues}
    \cup {GoodRow(n) : n \in 0..MaxRowLen}

\* Headers: the default layout, one name blanked, or one name repeated in
\* an extra last column.
HeaderInputs ==
    {DefaultHeader}
    \cup {[DefaultHeader EXCEPT ![i] = ""] : i \in DOMAIN DefaultHeader}
    \cup {Append(DefaultHeader, n) : n \in {"Account Identifier", "Admin Hold - Desc"}}

RemoveAt(s, k) == [i \in 1..(Len(s) - 1) |-> IF i < k THEN s[i] ELSE s[i + 1]]

ExtraSources == {"Full Name", "No Such Column"}
Transformations == {None, StrV(yes_no_to_boolean)}

\* Mapping tables: the default one, one entry removed, one entry's tag
\* changed, or one more entry appended.
TableInputs ==
    {DefaultTable}
    \cup {RemoveAt(DefaultTable, k) : k \in DOMAIN DefaultTable}
    \cup {[DefaultTable EXCEPT ![k][3] = IF @ = None THEN StrV(yes_no_to_boolean) ELSE None] :
            k \in DOMAIN DefaultTable}
    \cup {Append(DefaultTable, <<s, TableSchema_columns[t], x>>) :
            s \in ExtraSources, t \in DOMAIN TableSchema_columns, x \in Transformations}

\* The lists whose construction succeeds.
MappingInputs == {made.val : made \in {m \in {MakeMappings(t) : t \in TableInputs} : m.ok}}

\* The list the application passes to the services.
DefaultMappingList == IF get_default_mappings.ok THEN get_default_mappings.val ELSE <<>>

\* Target names offered to ColumnMapping: the canonical ones and others.
TargetInputs ==
    {TableSchema_columns[i] : i \in DOMAIN TableSchema_columns}
    \cup {"", "full_name", "Balance", "ACCOUNT_ID", "EFFECTIVE DATE", "STATUS"}

SourceInputs == {SourceColumnName(StrV(n)).val : n \in {"Full Name", "Balance", "Status"}}

TagInputs == Transformations \cup {StrV("strip")}

\* Records handed to validate(): what transform_row makes of a well-formed
\* row with its name, balance and time frame cells replaced.
NameCells == {None, StrV(""), StrV(" "), StrV("Jane Doe"), StrV(" Q1 "), IntV(2024)}
BalanceCells == {None, IntV(0), FloatV(500), StrV("N/A")}

RecordInputs ==
    {made.val : made \in
        {r \in {transform_row(TheDate, [GoodCells EXCEPT ![2] = n, ![3] = b, ![7] = t],
                              DefaultHeader, DefaultMappingList) :
                    n \in NameCells, b \in BalanceCells, t \in NameCells} : r.ok}}

NotCalled == [ok |-> FALSE, exc |-> "", msg |-> ""]

NoSession ==
    /\ rows = <<>> /\ title_row = "" /\ data_rows = <<>>
    /\ validated = NotCalled /\ processed = NotCalled

InitTransform ==
    /\ op = "transform_row" /\ pc = "call"
    /\ header_row \in HeaderInputs
    /\ source_row \in RowInputs
    /\ mappings \in MappingInputs
    /\ effective_date = TheDate
    /\ arg = None /\ ret = NotCalled
    /\ NoSession

InitCall(name, args) ==
    /\ op = name /\ pc = "call"
    /\ arg \in args /\ ret = NotCalled
    /\ header_row = <<>> /\ source_row = <<>> /\ mappings = <<>>
    /\ effective_date = None
    /\ NoSession

Init ==
    \/ InitTransform
    \/ InitCall("AccountIdentifier", CellValues)
    \/ InitCall("SourceColumnName", CellValues)
    \/ InitCall("ColumnMapping", SourceInputs \X TargetInputs \X TagInputs)
    \/ InitCall("get_default_mappings", {None})
    \/ InitCall("apply_transformation", CellValues \X TagInputs)
    \/ InitCall("validate", RecordInputs)

Return(name, result) ==
    /\ op = name /\ pc = "call"
    /\ ret' = result
    /\ pc' = "return"
    /\ UNCHANGED <<op, arg, source_row, mappings, rows, title_row, effective_date,
                   header_row, data_rows, validated, processed>>

TransformRow ==
    Return("transform_row", transform_row(effective_date, source_row, header_row, mappings))

ConstructAccountIdentifier == Return("AccountIdentifier", AccountIdentifier(arg))

ConstructSourceColumnName == Return("SourceColumnName", SourceColumnName(arg))

ConstructColumnMapping == Return("ColumnMapping", ColumnMapping(arg[1], arg[2], arg[3]))

GetDefaultMappings == Return("get_default_mappings", get_default_mappings)

ApplyTransformation ==
    Return("apply_transformation", Ok(apply_transformation(arg[1], arg[2])))

Validate == Return("validate", validate(arg))

Next ==
    \/ TransformRow
    \/ ConstructAccountIdentifier
    \/ ConstructSourceColumnName
    \/ ConstructColumnMapping
    \/ GetDefaultMappings
    \/ ApplyTransformation
    \/ Validate

Spec == Init /\ [][Next]_vars

(***************************************************************************)
(* An upload session                                                       *)
(***************************************************************************)
MaxRows == 3

TitleCells == <<StrV("SC Allocation List")>>
HeaderCells == [i \in DOMAIN DefaultHeader |-> StrV(DefaultHeader[i])]
Width == Len(HeaderCells)

\* openpyxl pads every row of the sheet to the sheet's width with None.
Pad(cells) == [i \in 1..Width |-> IF i <= Len(cells) THEN cells[i] ELSE None]

EmptyRow == Pad(<<>>)

\* The data rows a sheet is made of.
SheetRows ==
    {Pad(GoodCells),
     [Pad(GoodCells) EXCEPT ![1] = StrV("A200"), ![3] = IntV(0)],
     [Pad(GoodCells) EXCEPT ![1] = StrV("")],
     [Pad(GoodCells) EXCEPT ![2] = StrV(" "), ![3] = None],
     [Pad(GoodCells) EXCEPT ![3] = StrV("N/A")],
     [Pad(GoodCells) EXCEPT ![7] = IntV(2024)],
     [EmptyRow EXCEPT ![3] = IntV(0)],
     EmptyRow}

RECURSIVE SeqsUpTo(_, _)
SeqsUpTo(S, n) ==
    IF n = 0 THEN {<<>>}
    ELSE LET shorter == SeqsUpTo(S, n - 1)
         IN  shorter \cup {Append(q, x) : q \in shorter, x \in S}

DateCells == {TheDate, StrV("2024-01-01"), StrV("soon"), None}

\* Sheets: the default layout over every body of up to MaxRows rows; one
\* row under each kind of date cell and under a header with a blank name;
\* a sheet with no header row.
Sheets ==
    {<<Pad(TitleCells), Pad(<<TheDate>>), HeaderCells>> \o body :
        body \in SeqsUpTo(SheetRows, MaxRows)}
    \cup {<<Pad(TitleCells), Pad(<<d>>), HeaderCells, Pad(GoodCells)>> : d \in DateCells}
    \cup {<<Pad(TitleCells), Pad(<<TheDate>>), [HeaderCells EXCEPT ![1] = None], r>> :
            r \in SheetRows}
    \cup {<<Pad(TitleCells), Pad(<<TheDate>>)>>}

InitApp ==
    /\ op = "session" /\ pc = "uploaded"
    /\ rows \in Sheets
    /\ mappings = DefaultMappingList
    /\ arg = None /\ ret = NotCalled /\ source_row = <<>>
    /\ title_row = "" /\ effective_date = None /\ header_row = <<>> /\ data_rows = <<>>
    /\ validated = NotCalled /\ processed = NotCalled

ParseExcelFile ==
    /\ pc = "uploaded"
    /\ LET source == parse_excel_file(rows)
       IN  IF source.ok
           THEN /\ pc' = "parsed"
                /\ title_row' = source.val.title_row
                /\ effective_date' = source.val.effective_date
                /\ header_row' = source.val.header_row
                /\ data_rows' = source.val.data_rows
                /\ ret' = ret
           ELSE /\ pc' = "failed"
                /\ ret' = source
                /\ UNCHANGED <<title_row, effective_date, header_row, data_rows>>
    /\ UNCHANGED <<op, arg, source_row, mappings, rows, validated, processed>>

ValidateRecords ==
    /\ pc = "parsed" /\ ~validated.ok
    /\ validated' = Ok(validate_records(effective_date, header_row, data_rows, mappings))
    /\ UNCHANGED <<op, pc, arg, ret, source_row, mappings, rows, title_row,
                   effective_date, header_row, data_rows, processed>>

ProcessAllData ==
    /\ pc = "parsed" /\ ~processed.ok
    /\ processed' = Ok(process_all_data(effective_date, header_row, data_rows, mappings))
    /\ UNCHANGED <<op, pc, arg, ret, source_row, mappings, rows, title_row,
                   effective_date, header_row, data_rows, validated>>

NextApp ==
    \/ ParseExcelFile
    \/ ValidateRecords
    \/ ProcessAllData

SpecApp == InitApp /\ [][NextApp]_vars

(***************************************************************************)
(* Properties of the domain operations (Spec)                              *)
(***************************************************************************)
Returned(name) == op = name /\ pc = "return"

\* The eight spellings of "YES" up to letter case.
YesSpellings == {"YES", "YEs", "YeS", "Yes", "yES", "yEs", "yeS", "yes"}

\* The value the yes/no-to-boolean tag is specified to give.
YesNo(v) == IF TypeOf(v) = "str" THEN BoolV(v[2] \in YesSpellings) ELSE BoolV(Truthy(v))

Tagged(k) == mappings[k].transformation = StrV(yes_no_to_boolean)

SourceOf(k) == mappings[k].source_column.value[2]

\* The record field a canonical target names.
FieldName(target) ==
    CASE target = "EFFECTIVE_DATE" -> "effective_date"
      [] target = "ACCOUNT_IDENTIFIER" -> "account_identifier"
      [] target = "FULL_NAME" -> "full_name"
      [] target = "BALANCE" -> "balance"
      [] target = "FRAUD_WARNING" -> "fraud_warning"
      [] target = "ADMIN_HOLD" -> "admin_hold"
      [] target = "ALLOCATION_OF_LOSS_REASON" -> "allocation_of_loss_reason"
      [] target = "TIME_FRAME" -> "time_frame"
      [] target = "MANAGING_OFFICER" -> "managing_officer"

IsAccountTarget(k) == mappings[k].target_column = "ACCOUNT_IDENTIFIER"

\* The first position of the header holding the k-th mapping's source name.
FirstIndex(k) ==
    CHOOSE i \in DOMAIN header_row :
        header_row[i] = SourceOf(k) /\ \A j \in 1..(i - 1) : header_row[j] # SourceOf(k)

\* The k-th mapping's header occurs and the row reaches its index.
Present(k) ==
    /\ \E i \in DOMAIN header_row : header_row[i] = SourceOf(k)
    /\ FirstIndex(k) <= Len(source_row)

RawCell(k) == source_row[FirstIndex(k)]

\* The raw cell, coerced where the mapping carries the tag.
Expected(k) == IF Tagged(k) THEN YesNo(RawCell(k)) ELSE RawCell(k)

\* What the returned record holds for the k-th mapping's target
\* (account_identifier by its wrapped value).
FieldValue(k) ==
    IF IsAccountTarget(k) THEN ret.val.account_identifier.value
    ELSE ret.val[FieldName(mappings[k].target_column)]

\* No later mapping of the list has the k-th mapping's target.
LastForTarget(k) ==
    \A j \in DOMAIN mappings : j > k => mappings[j].target_column # mappings[k].target_column

\* Some canonical field is neither EFFECTIVE_DATE nor the target of a mapping.
Partial ==
    \E i \in DOMAIN TableSchema_columns :
        /\ TableSchema_columns[i] # "EFFECTIVE_DATE"
        /\ \A k \in DOMAIN mappings : mappings[k].target_column # TableSchema_columns[i]

\* C1, as stated: with every mapped header present and the row long enough,
\* transform_row returns a record whose mapped fields equal the raw cells
\* (coerced where tagged).
C1_Original ==
    (Returned("transform_row") /\ \A k \in DOMAIN mappings : Present(k))
    => /\ ret.ok
       /\ \A k \in DOMAIN mappings : FieldValue(k) = Expected(k)

\* C1, amended: with every mapped header present and the row long enough,
\* transform_row returns a record exactly when the list covers the eight
\* fields other than effective_date and no ACCOUNT_IDENTIFIER mapping yields
\* an empty str(); in that record each target holds the value of the LAST
\* mapping of that target: the raw cell at the first index of its header,
\* coerced where tagged, and account_identifier wraps str() of that value.
C1_RoundTrip ==
    (Returned("transform_row") /\ \A k \in DOMAIN mappings : Present(k))
    => /\ ret.ok <=> /\ ~Partial
                     /\ \A k \in DOMAIN mappings :
                          IsAccountTarget(k) => PyStr(Expected(k)) # ""
       /\ ret.ok => \A k \in DOMAIN mappings :
                      LastForTarget(k) =>
                        FieldValue(k) = IF IsAccountTarget(k)
                                        THEN StrV(PyStr(Expected(k)))
                                        ELSE Expected(k)

\* A record was returned from a header that repeats a mapped name and a
\* list that maps one target twice.
C1_Witness ==
    /\ Returned("transform_row") /\ ret.ok
    /\ \A k \in DOMAIN mappings : Present(k)
    /\ \E k \in DOMAIN mappings : ~LastForTarget(k)
    /\ \E i, j \in DOMAIN header_row : i < j /\ header_row[i] = header_row[j]

\* C2, as stated, for the lists that cover every field (a partial list is
\* C8's case): a mapping whose header is absent, or whose index is outside
\* the row, never makes transform_row raise and leaves its target null.
C2_Original ==
    (Returned("transform_row") /\ ~Partial)
    => \A k \in DOMAIN mappings :
         ~Present(k) => ret.ok /\ FieldValue(k) = None

\* C2, amended: the value fetched for such a mapping is null and fetching it
\* never raises: transform_row raises only for a partial list or for an
\* ACCOUNT_IDENTIFIER mapping whose cell is present and has an empty str().
\* In the record returned, the target of such a mapping (when it is the last
\* mapping of that target) is null if untagged, False if tagged, and for
\* ACCOUNT_IDENTIFIER an AccountIdentifier wrapping "None" (untagged) or
\* "False" (tagged).
C2_AbsentIsNull ==
    Returned("transform_row")
    => /\ ~ret.ok => \/ Partial
                     \/ \E k \in DOMAIN mappings :
                          IsAccountTarget(k) /\ Present(k) /\ PyStr(Expected(k)) = ""
       /\ ret.ok => \A k \in DOMAIN mappings :
                      (~Present(k) /\ LastForTarget(k)) =>
                        FieldValue(k) =
                          CASE IsAccountTarget(k) /\ Tagged(k) -> StrV("False")
                            [] IsAccountTarget(k) /\ ~Tagged(k) -> StrV("None")
                            [] ~IsAccountTarget(k) /\ Tagged(k) -> BoolV(FALSE)
                            [] OTHER -> None

\* A record was returned although the ACCOUNT_IDENTIFIER mapping's header is
\* absent, and a tagged mapping's cell is outside the row or its header absent.
C2_Witness ==
    /\ Returned("transform_row") /\ ret.ok
    /\ \E k \in DOMAIN mappings : ~Present(k) /\ IsAccountTarget(k)

\* C3: under the yes/no-to-boolean tag a string gives true exactly when it is
\* "YES" up to letter case, every other string gives false, and a falsy
\* non-string gives false; with no tag the value passes through unchanged.
C3_YesNoToBoolean ==
    Returned("apply_transformation")
    => LET value == arg[1]
           transformation == arg[2]
       IN  /\ (transformation = StrV(yes_no_to_boolean) /\ TypeOf(value) = "str")
                => ret.val = BoolV(value[2] \in YesSpellings)
           /\ (transformation = StrV(yes_no_to_boolean) /\ value \in {None, IntV(0), BoolV(FALSE)})
                => ret.val = BoolV(FALSE)
           /\ transformation = None => ret.val = value

\* "Yes" under the tag has given true.
C3_Witness ==
    /\ Returned("apply_transformation")
    /\ arg = <<StrV("Yes"), StrV(yes_no_to_boolean)>>
    /\ ret.val = BoolV(TRUE)

\* null, empty or whitespace-only
IsBlank(v) ==
    \/ v = None
    \/ TypeOf(v) = "str" /\ \A i \in 1..Len(v[2]) : CharAt(v[2], i) \in Whitespace

\* C4: validate() returns exactly the violations whose conditions hold: the
\* full-name one iff full_name is blank, the balance one iff balance is null,
\* the time-frame one iff time_frame is blank.
C4_ValidateExact ==
    Returned("validate")
    => /\ ret.ok
       /\ ret.val = (IF IsBlank(arg.full_name) THEN <<FullNameError>> ELSE <<>>)
                    \o (IF arg.balance = None THEN <<BalanceError>> ELSE <<>>)
                    \o (IF IsBlank(arg.time_frame) THEN <<TimeFrameError>> ELSE <<>>)

\* C7: the record transform_row returns carries the effective_date argument.
C7_DateStamped ==
    (Returned("transform_row") /\ ret.ok) => ret.val.effective_date = effective_date

\* C8, as stated: a partial mapping list is not rejected.
C8_Original == (Returned("transform_row") /\ Partial) => ret.ok

\* C8, amended: transform_row called with a partial mapping list (one that
\* leaves a canonical field other than EFFECTIVE_DATE uncovered) always
\* raises and returns no record: TypeError from the construction of the
\* AllocationRecord, unless an AccountIdentifier raised ValueError before.
C8_PartialRejected ==
    (Returned("transform_row") /\ Partial)
    => /\ ~ret.ok
       /\ ret.exc \in {"TypeError", "ValueError"}
       /\ ret.exc = "ValueError" =>
            \E k \in DOMAIN mappings :
                IsAccountTarget(k) /\ PyStr(get_value(header_row, source_row, SourceOf(k))) = ""

\* A partial list was given and the record's construction raised TypeError.
C8_Witness == Returned("transform_row") /\ Partial /\ ~ret.ok /\ ret.exc = "TypeError"

NonEmptyString(v) == TypeOf(v) = "str" /\ v[2] # ""

\* C9: constructing an AccountIdentifier or a SourceColumnName fails exactly
\* for an empty string or a non-string, so every one that exists (also the
\* account_identifier of every record of transform_row and the source_column
\* of every mapping) wraps a non-empty string.
C9_NonEmptyValueObjects ==
    /\ (op \in {"AccountIdentifier", "SourceColumnName"} /\ pc = "return")
         => /\ ret.ok <=> NonEmptyString(arg)
            /\ ret.ok => ret.val.cls = op /\ ret.val.value = arg
    /\ (Returned("transform_row") /\ ret.ok)
         => NonEmptyString(ret.val.account_identifier.value)
    /\ \A k \in DOMAIN mappings : NonEmptyString(mappings[k].source_column.value)
    /\ (Returned("get_default_mappings") /\ ret.ok)
         => \A k \in DOMAIN ret.val : NonEmptyString(ret.val[k].source_column.value)

\* AccountIdentifier("") was refused.
C9_Witness == Returned("AccountIdentifier") /\ arg = StrV("") /\ ~ret.ok /\ ret.exc = "ValueError"

\* C10: ColumnMapping is constructed iff its target is one of the 9 names of
\* TableSchema.columns, and the default table has 8 entries, one per
\* canonical field other than EFFECTIVE_DATE, tagged exactly on
\* FRAUD_WARNING and ADMIN_HOLD.
C10_CanonicalTargets ==
    /\ Returned("ColumnMapping")
         => /\ ret.ok <=> \E i \in DOMAIN TableSchema_columns : arg[2] = TableSchema_columns[i]
            /\ ret.ok => ret.val.target_column = arg[2]
    /\ Returned("get_default_mappings")
         => /\ ret.ok
            /\ Len(ret.val) = 8
            /\ Len(TableSchema_columns) = 9
            /\ {ret.val[k].target_column : k \in DOMAIN ret.val}
                 = {TableSchema_columns[i] : i \in DOMAIN TableSchema_columns} \ {"EFFECTIVE_DATE"}
            /\ \A k \in DOMAIN ret.val :
                 ret.val[k].transformation =
                    IF ret.val[k].target_column \in {"FRAUD_WARNING", "ADMIN_HOLD"}
                    THEN StrV(yes_no_to_boolean) ELSE None

\* A non-canonical target was refused.
C10_Witness == Returned("ColumnMapping") /\ arg[2] = "full_name" /\ ~ret.ok

(***************************************************************************)
(* Properties of an upload session (SpecApp)                               *)
(***************************************************************************)
RowTransform(i) == transform_row(effective_date, data_rows[i], header_row, mappings)

FailsTransformation(i) == ~RowTransform(i).ok

\* The row transforms and validate() returns no violation for its record.
Clean(i) ==
    /\ RowTransform(i).ok
    /\ validate(RowTransform(i).val).ok
    /\ validate(RowTransform(i).val).val = <<>>

\* C5: with exactly one data row failing transformation and the other N
\* clean, validate_records returns valid_count = N and one error entry, and
\* process_all_data returns N records.
C5_OneBadRow ==
    (/\ pc = "parsed" /\ validated.ok /\ processed.ok
     /\ \E b \in DOMAIN data_rows :
          /\ FailsTransformation(b)
          /\ \A i \in DOMAIN data_rows \ {b} : Clean(i))
    => /\ validated.val[1] = Len(data_rows) - 1
       /\ Len(validated.val[2]) = 1
       /\ Len(processed.val) = Len(data_rows) - 1

\* empty/absent
IsEmptyCell(v) == v = None \/ v = StrV("")

RECURSIVE NonEmptyRows(_)
NonEmptyRows(rs) ==
    IF rs = <<>> THEN <<>>
    ELSE (IF \E i \in DOMAIN Head(rs) : ~IsEmptyCell(Head(rs)[i]) THEN <<Head(rs)>> ELSE <<>>)
         \o NonEmptyRows(Tail(rs))

\* C6: data_rows holds, in order, exactly the rows from row 3 on that have a
\* non-empty cell.
C6_KeepsNonEmptyRows ==
    pc = "parsed" => data_rows = NonEmptyRows(SubSeq(rows, 4, Len(rows)))

\* The account identifiers of the records transform_row returns for the data
\* rows from the i-th on, in data_rows order.
RECURSIVE TransformedIds(_)
TransformedIds(i) ==
    IF i > Len(data_rows) THEN <<>>
    ELSE (IF RowTransform(i).ok
          THEN <<RowTransform(i).val.account_identifier.value>> ELSE <<>>)
         \o TransformedIds(i + 1)

EmittedIds == [k \in DOMAIN processed.val |-> processed.val[k].ACCOUNT_IDENTIFIER]

\* C11: process_all_data emits one output record, in data_rows order, for
\* each data row on which transform_row succeeds, whether or not the record
\* passes validate(); so the number of emitted records is never smaller
\* than the valid_count of validate_records.
C11_OnePerTransformedRow ==
    (pc = "parsed" /\ processed.ok)
    => /\ EmittedIds = TransformedIds(1)
       /\ validated.ok => Len(processed.val) >= validated.val[1]

\* The i-th data row is emitted: it transforms and its export dict is built.
Emitted(i) == RowTransform(i).ok /\ ExportRow(RowTransform(i).val).ok

\* The position in the output of the record emitted for the i-th data row.
EmittedIndex(i) == Cardinality({j \in 1..i : Emitted(j)})

IsNumber(v) == TypeOf(v) \in {"int", "float"}

SameNumber(a, b) == IsNumber(a) /\ IsNumber(b) /\ a[2] = b[2]

\* C12: for every emitted record the exported BALANCE is null exactly when
\* the record's balance is null, and when validate() reports no balance
\* violation (balance present, 0 included) it is that same numeric value.
C12_BalanceExported ==
    (pc = "parsed" /\ processed.ok)
    => \A i \in DOMAIN data_rows :
         Emitted(i) =>
           LET balance == RowTransform(i).val.balance
               BALANCE == processed.val[EmittedIndex(i)].BALANCE
           IN  /\ (BALANCE = None) <=> (balance = None)
               /\ balance # None => SameNumber(BALANCE, balance)

====
